---- MODULE Spec2Model ----
(***************************************************************************)
(* Geometry resolution and operation pipeline of imageless:                *)
(* PixelUnit / PercentageUnit / Unit (src/src/lib.rs), CropOrigin and Crop *)
(* (src/src/operations/crop.rs), Resize (src/src/operations/resize.rs) and *)
(* process_file (src/src/lib.rs).                                          *)
(*                                                                         *)
(* A u32 is modelled by its two 16-bit halves <<hi, lo>>, so that the      *)
(* whole range 0 .. 2^32 - 1, its wrap and its saturation are covered.     *)
(* An f32 is modelled by its IEEE-754 binary32 fields [sign, exp, man];    *)
(* products are rounded to nearest, ties to even.                          *)
(* `build` is the cargo profile: integer overflow panics in a debug build  *)
(* and wraps in a release build.                                           *)
(***************************************************************************)
EXTENDS Integers, Sequences, FiniteSets, TLC

VARIABLES image, operations, idx, result, log, units, lastError, call, ret,
          build

vars == <<image, operations, idx, result, log, units, lastError, call, ret,
          build>>

----------------------------------------------------------------------------
(* Arithmetic helpers                                                      *)

Pow2(n) == 2 ^ n

\* number of significant bits of n, 0 <= n < 2^31
BitLen(n) ==
    CHOOSE k \in 0..31 : (k = 31 \/ n < 2 ^ k) /\ (k = 0 \/ n >= 2 ^ (k - 1))

Max(a, b) == IF a > b THEN a ELSE b

----------------------------------------------------------------------------
(* u32                                                                     *)

\* the u32 of value n, for n < 2^31
U32(n) == <<n \div 65536, n % 65536>>

\* u32::MAX = 4294967295
U32Max == <<65535, 65535>>

Lt(a, b) == a[1] < b[1] \/ (a[1] = b[1] /\ a[2] < b[2])

Gt(a, b) == Lt(b, a)

Le(a, b) == ~Lt(b, a)

Min(a, b) == IF Lt(a, b) THEN a ELSE b

\* a + b overflows a u32
AddOverflows(a, b) == a[1] + b[1] + (a[2] + b[2]) \div 65536 >= 65536

\* a + b modulo 2^32
WrappingAdd(a, b) ==
    <<(a[1] + b[1] + (a[2] + b[2]) \div 65536) % 65536, (a[2] + b[2]) % 65536>>

\* a - b for a >= b
Minus(a, b) ==
    IF a[2] >= b[2] THEN <<a[1] - b[1], a[2] - b[2]>>
    ELSE <<a[1] - b[1] - 1, a[2] - b[2] + 65536>>

\* number of significant bits of the u32 a
BitLenU32(a) == IF a[1] > 0 THEN BitLen(a[1]) + 16 ELSE BitLen(a[2])

\* outcome of a panic (a failed assert!, an overflow in a debug build):
\* no value is produced and the process aborts
Panic == <<-1, -1>>

----------------------------------------------------------------------------
(* f32                                                                     *)

F32(s, e, m) == [sign |-> s, exp |-> e, man |-> m]

IsNaN(f) == f.exp = 255 /\ f.man # 0

IsInf(f) == f.exp = 255 /\ f.man = 0

IsZero(f) == f.exp = 0 /\ f.man = 0

\* (0.0..=1.0).contains(&value), i.e. 0.0 <= value && value <= 1.0
InRange(f) ==
    /\ ~IsNaN(f)
    /\ (f.sign = 0 \/ IsZero(f))
    /\ (f.exp < 127 \/ (f.exp = 127 /\ f.man = 0))

\* a non-negative finite f32 held as [m, e]: its value is m * 2^e, m <= 2^24
Float(m, e) == [m |-> m, e |-> e]

\* q, or q + 1 when the remainder r of a division by 2 * half rounds up
\* (to nearest, ties to even)
RoundUp(q, r, half) ==
    IF r > half \/ (r = half /\ q % 2 = 1) THEN q + 1 ELSE q

\* the u32 n shifted right by k bits, 0 <= k <= 8, n < 2^(24 + k)
ShrU32(n, k) == n[1] * Pow2(16 - k) + n[2] \div Pow2(k)

\* `n as f32` with k low bits dropped: the nearest f32, ties to even
U32AsF32Drop(n, k) ==
    IF k = 0 THEN Float(ShrU32(n, 0), 0)
    ELSE Float(RoundUp(ShrU32(n, k), n[2] % Pow2(k), Pow2(k - 1)), k)

\* `n as f32` for the u32 n
U32AsF32(n) == U32AsF32Drop(n, Max(BitLenU32(n) - 24, 0))

\* significand and exponent of a finite f32: |f| = F32Man(f) * 2^F32Exp(f)
F32Man(f) == IF f.exp = 0 THEN f.man ELSE 8388608 + f.man

F32Exp(f) == IF f.exp = 0 THEN -149 ELSE f.exp - 150

\* exact product of a (< 2^31) and b (< 2^24) as <<hi, lo>>,
\* a * b = hi * 2^24 + lo with lo < 2^24, computed on 12-bit limbs
WideMul(a, b) ==
    LET a0 == a % 4096
        a1 == (a \div 4096) % 4096
        a2 == a \div 16777216
        b0 == b % 4096
        b1 == b \div 4096
        t0 == a0 * b0
        t1 == a1 * b0 + a0 * b1
        t2 == a1 * b1 + a2 * b0
        t3 == a2 * b1
        lofull == t0 + (t1 % 4096) * 4096
    IN  <<(lofull \div 16777216) + (t1 \div 4096) + t2 + t3 * 4096,
          lofull % 16777216>>

\* floor((hi * 2^24 + lo) / 2^s) for s >= 0, when that is below 2^31
WideShr(w, s) ==
    IF s >= 55 THEN 0
    ELSE IF s >= 24 THEN w[1] \div Pow2(s - 24)
    ELSE w[1] * Pow2(24 - s) + w[2] \div Pow2(s)

\* number of significant bits of hi * 2^24 + lo
WideLen(w) == IF w[1] > 0 THEN BitLen(w[1]) + 24 ELSE BitLen(w[2])

\* the exact product w * 2^e rounded to 24 significant bits by dropping its
\* s low bits, 0 <= s <= 24
RoundWide(w, e, s) ==
    IF s = 0 THEN Float(w[2], e)
    ELSE Float(RoundUp(WideShr(w, s), w[2] % Pow2(s), Pow2(s - 1)), e + s)

\* the exact product w * 2^e rounded to an f32
WideAsF32(w, e) == RoundWide(w, e, Max(WideLen(w) - 24, 0))

\* The f32 product d * p of the f32 d = [m, e] and the finite f32 p >= 0
MulF32(d, p) == WideAsF32(WideMul(d.m, F32Man(p)), d.e + F32Exp(p))

\* m * 2^e as a u32, for e >= 0 and m * 2^e < 2^32
ShlU32(m, e) ==
    IF e <= 16 THEN <<m \div Pow2(16 - e), (m % Pow2(16 - e)) * Pow2(e)>>
    ELSE <<m * Pow2(e - 16), 0>>

\* `x as u32` for the f32 x = m * 2^e >= 0: truncation toward zero,
\* saturating at u32::MAX
F32AsU32(x) ==
    IF x.m = 0 THEN U32(0)
    ELSE IF x.e >= 0
    THEN IF BitLen(x.m) + x.e > 32 THEN U32Max ELSE ShlU32(x.m, x.e)
    ELSE IF -x.e >= 25 THEN U32(0)
    ELSE U32(x.m \div Pow2(-x.e))

----------------------------------------------------------------------------
(* PixelUnit, PercentageUnit, Unit (src/src/lib.rs)                        *)

\* impl Sub for PixelUnit: assert!(self.pixels > rhs.pixels)
Sub(self, rhs) == IF Gt(self, rhs) THEN Minus(self, rhs) ELSE Panic

\* an addition that drops its left operand
AddDropsSelf(self, rhs) == rhs

\* impl Add for PixelUnit: self.pixels + rhs.pixels
Add(self, rhs) ==
    IF ~AddOverflows(self, rhs) THEN WrappingAdd(self, rhs)
    ELSE IF build = "debug" THEN Panic
    ELSE WrappingAdd(self, rhs)

\* impl TryFrom<f32> for PercentageUnit
try_from(value) ==
    IF ~InRange(value)
    THEN [ok |-> FALSE, err |-> [kind |-> "PercentageOutOfRange", percentage |-> value]]
    ELSE [ok |-> TRUE, unit |-> [percentage |-> value]]

Pixel(n) == [tag |-> "pixel", pixels |-> n]

Percentage(f) == [tag |-> "percentage", percentage |-> f]

\* `x as u32` replaced by rounding to the nearest integer
F32RoundU32(x) ==
    IF x.m = 0 THEN U32(0)
    ELSE IF x.e >= 0
    THEN IF BitLen(x.m) + x.e > 32 THEN U32Max ELSE ShlU32(x.m, x.e)
    ELSE IF -x.e >= 26 THEN U32(0)
    ELSE U32((x.m + Pow2(-x.e - 1)) \div Pow2(-x.e))

\* as_pixel rounding the product instead of truncating it
as_pixel_rounding(self, dimension) ==
    IF self.tag = "pixel" THEN self.pixels
    ELSE IF IsNaN(self.percentage) \/ self.percentage.sign = 1
            \/ IsZero(self.percentage) THEN U32(0)
    ELSE IF IsInf(self.percentage)
    THEN IF dimension = U32(0) THEN U32(0) ELSE U32Max
    ELSE F32RoundU32(MulF32(U32AsF32(dimension), self.percentage))

\* Unit::as_pixel.  A product that is NaN (NaN percentage, 0 * infinity) or
\* not positive casts to 0, an infinite one to u32::MAX.
as_pixel(self, dimension) ==
    IF self.tag = "pixel" THEN self.pixels
    ELSE IF IsNaN(self.percentage) \/ self.percentage.sign = 1
            \/ IsZero(self.percentage) THEN U32(0)
    ELSE IF IsInf(self.percentage)
    THEN IF dimension = U32(0) THEN U32(0) ELSE U32Max
    ELSE F32AsU32(MulF32(U32AsF32(dimension), self.percentage))

----------------------------------------------------------------------------
(* Coordinate, CropOrigin, Crop (src/src/operations/crop.rs)               *)

Coordinate(x, y) == [x |-> x, y |-> y]

Minimum(c) == [tag |-> "minimum", coordinate |-> c]

Maximum(c) == [tag |-> "maximum", coordinate |-> c]

CropStart(c) == [tag |-> "crop-start", coordinate |-> c]

\* a pixel coordinate that was never produced because the subtraction or
\* the addition computing it panicked
PanicCoordinate == <<Panic, Panic>>

\* the pair (x, y) of as_pixel_coordinate, unless computing x or y panicked
Corner(x, y) == IF x = Panic \/ y = Panic THEN PanicCoordinate ELSE <<x, y>>

\* CropOrigin::as_pixel_coordinate
as_pixel_coordinate(self, x, y, width, height) ==
    CASE self.tag = "minimum" ->
           <<as_pixel(self.coordinate.x, width),
             as_pixel(self.coordinate.y, height)>>
      [] self.tag = "maximum" ->
           Corner(Sub(width, as_pixel(self.coordinate.x, width)),
                  Sub(height, as_pixel(self.coordinate.y, height)))
      [] self.tag = "crop-start" ->
           Corner(Add(x, as_pixel(self.coordinate.x, width)),
                  Add(y, as_pixel(self.coordinate.y, height)))

Image(w, h, g) == [width |-> w, height |-> h, gray |-> g]

NoImage == [width |-> Panic, height |-> Panic, gray |-> FALSE]

NoRequest == <<>>

\* DynamicImage::crop_imm of the image crate: the rectangle is clamped to
\* the bounds of the image, the source image is left untouched
crop_imm(img, x, y, width, height) ==
    Image(Min(width, Minus(img.width, Min(x, img.width))),
          Min(height, Minus(img.height, Min(y, img.height))),
          img.gray)

\* the first corner of Crop::process: left and top
CropNear(self, img) ==
    <<as_pixel(self.from.x, img.height), as_pixel(self.from.y, img.width)>>

\* a validation that forgets the right < left check
CropValidateTopOnly(left, top, right, bottom) ==
    IF Lt(bottom, top) THEN "BottomLessThanTop" ELSE "valid"

\* the bottom < top and right < left checks of Crop::process
CropValidate(left, top, right, bottom) ==
    IF Lt(bottom, top) THEN "BottomLessThanTop"
    ELSE IF Lt(right, left) THEN "RightLessThanLeft"
    ELSE "valid"

\* the outcome of Crop::process that produces no image
CropFails(outcome, error, near, far) ==
    [outcome |-> outcome, image |-> NoImage, error |-> error,
     near |-> near, far |-> far, request |-> NoRequest]

\* the tail of Crop::process: the two checks, then image.crop_imm(left, top,
\* right - left, bottom - top)
CropRect(img, near, far) ==
    IF CropValidate(near[1], near[2], far[1], far[2]) # "valid"
    THEN CropFails("error", CropValidate(near[1], near[2], far[1], far[2]),
                   near, far)
    ELSE IF Sub(far[1], near[1]) = Panic \/ Sub(far[2], near[2]) = Panic
    THEN CropFails("panic", "none", near, far)
    ELSE [outcome |-> "image",
          image |-> crop_imm(img, near[1], near[2],
                             Sub(far[1], near[1]), Sub(far[2], near[2])),
          error |-> "none", near |-> near, far |-> far,
          request |-> <<near[1], near[2],
                        Sub(far[1], near[1]), Sub(far[2], near[2])>>]

\* Crop::process once both corners are resolved
CropCorners(img, near, far) ==
    IF far = PanicCoordinate THEN CropFails("panic", "none", near, far)
    ELSE CropRect(img, near, far)

\* Crop::process once the first corner is resolved
CropFrom(self, img, near) ==
    CropCorners(img, near,
        as_pixel_coordinate(self.to, near[1], near[2], img.width, img.height))

\* impl Process for Crop.  near, far and request record the resolved corners
\* and the arguments handed to crop_imm.
CropProcess(self, img) == CropFrom(self, img, CropNear(self, img))

----------------------------------------------------------------------------
(* Resize (src/src/operations/resize.rs)                                   *)

\* the value of a u32 below 2^31
ToInt(a) == a[1] * 65536 + a[2]

\* round(a / b) for a >= 0, b > 0, halves away from zero
RoundDiv(a, b) == (2 * a + b) \div (2 * b)

\* the size DynamicImage::resize gives a w x h image for the box nw x nh
\* (all below 2^15): the largest size of the same aspect ratio that fits the
\* box, at least 1 x 1
FitSize(w, h, nw, nh) ==
    IF w = 0 /\ h = 0 THEN <<1, 1>>
    ELSE IF w = 0 THEN <<1, Max(nh, 1)>>
    ELSE IF h = 0 THEN <<Max(nw, 1), 1>>
    ELSE IF nw * h <= nh * w
    THEN <<Max(nw, 1), Max(RoundDiv(h * nw, w), 1)>>
    ELSE <<Max(RoundDiv(w * nh, h), 1), Max(nh, 1)>>

\* the image of the given size
Sized(size, gray) == Image(U32(size[1]), U32(size[2]), gray)

\* DynamicImage::resize of the image crate
resize(img, nwidth, nheight) ==
    Sized(FitSize(ToInt(img.width), ToInt(img.height),
                  ToInt(nwidth), ToInt(nheight)), img.gray)

\* DynamicImage::resize_exact of the image crate
resize_exact(img, nwidth, nheight) == Image(nwidth, nheight, img.gray)

\* DynamicImage::resize_to_fill of the image crate
resize_to_fill(img, nwidth, nheight) == Image(nwidth, nheight, img.gray)

\* the width and height Resize::process hands to the image crate
ResizeTarget(self, img) ==
    <<as_pixel(self.width, img.width), as_pixel(self.height, img.height)>>

\* the match on crop_mode of Resize::process
ResizeDispatch(self, img, target) ==
    [outcome |-> "image",
     image |-> CASE self.crop_mode = "preserve" -> resize(img, target[1], target[2])
                 [] self.crop_mode = "exact" -> resize_exact(img, target[1], target[2])
                 [] self.crop_mode = "fill" -> resize_to_fill(img, target[1], target[2]),
     error |-> "none", near |-> <<>>, far |-> <<>>, request |-> target]

\* impl Process for Resize
ResizeProcess(self, img) ==
    ResizeDispatch(self, img, ResizeTarget(self, img))

----------------------------------------------------------------------------
(* Grayscale, Blur, AdjustBrightness (src/src/operations/mod.rs)           *)

\* an operation that hands the image to the image crate and cannot fail
Produced(img) ==
    [outcome |-> "image", image |-> img, error |-> "none",
     near |-> <<>>, far |-> <<>>, request |-> NoRequest]

\* impl Process for Grayscale
GrayscaleProcess(self, img) == Produced(Image(img.width, img.height, TRUE))

\* impl Process for Blur
BlurProcess(self, img) == Produced(img)

\* the value AdjustBrightness::process hands to DynamicImage::brighten
BrightnessValue(self) ==
    IF self.mode = "darken" THEN -self.value ELSE self.value

\* impl Process for AdjustBrightness
AdjustBrightnessProcess(self, img) == Produced(img)

Grayscale == [tag |-> "grayscale"]

Blur(sigma) == [tag |-> "blur", sigma |-> sigma]

Darken(v) == [tag |-> "adjust-brightness", mode |-> "darken", value |-> v]

Brighten(v) == [tag |-> "adjust-brightness", mode |-> "brighten", value |-> v]

Crop(from, to) == [tag |-> "crop", from |-> from, to |-> to]

Resize(w, h, filter, mode) ==
    [tag |-> "resize", width |-> w, height |-> h, filter |-> filter,
     crop_mode |-> mode]

\* Operation::get_process followed by Process::process
Process(op, img) ==
    CASE op.tag = "adjust-brightness" -> AdjustBrightnessProcess(op, img)
      [] op.tag = "blur" -> BlurProcess(op, img)
      [] op.tag = "crop" -> CropProcess(op, img)
      [] op.tag = "grayscale" -> GrayscaleProcess(op, img)
      [] op.tag = "resize" -> ResizeProcess(op, img)

----------------------------------------------------------------------------
(* Inputs                                                                  *)

\* longest operation list of a pipeline run
MaxOps == 3

\* the cargo profiles
Builds == {"debug", "release"}

\* f32 values a configuration document can state
F0 == F32(0, 0, 0)                \* 0.0
F1 == F32(0, 120, 2348810)        \* 0.01
F20 == F32(0, 124, 5033165)       \* 0.2
F29 == F32(0, 125, 1342177)       \* 0.29
F50 == F32(0, 126, 0)             \* 0.5
F80 == F32(0, 126, 5033165)       \* 0.8
F99 == F32(0, 126, 8220836)       \* 0.99
F100 == F32(0, 127, 0)            \* 1.0
F150 == F32(0, 127, 4194304)      \* 1.5
FNeg25 == F32(1, 125, 0)          \* -0.25
FNegZero == F32(1, 0, 0)          \* -0.0
FInf == F32(0, 255, 0)            \* inf
FNaN == F32(0, 255, 4194304)      \* NaN

Floats ==
    {F0, F1, F20, F29, F50, F80, F99, F100, F150, FNeg25, FNegZero, FInf, FNaN}

\* the images a decoded file can hold
Images ==
    {Image(U32(100), U32(100), FALSE), Image(U32(200), U32(100), FALSE),
     Image(U32(3), U32(7), FALSE)}

NoError == [kind |-> "none", detail |-> "none"]

OperationError(message) == [kind |-> "OperationError", detail |-> message]

\* the operations of the pipeline runs
Ops ==
    { Grayscale,
      Blur(F50),
      Darken(10),
      Crop(Coordinate(Percentage(F20), Percentage(F20)),
           Maximum(Coordinate(Percentage(F20), Percentage(F20)))),
      Crop(Coordinate(Pixel(U32(50)), Percentage(F50)),
           Minimum(Coordinate(Pixel(U32(10)), Pixel(U32(10))))),
      Crop(Coordinate(Pixel(U32(0)), Pixel(U32(0))),
           Minimum(Coordinate(Pixel(U32(0)), Percentage(F50)))),
      Crop(Coordinate(Pixel(U32(1)), Pixel(U32(1))),
           CropStart(Coordinate(Percentage(F50), Pixel(U32Max)))),
      Resize(Percentage(F50), Pixel(U32(50)), "nearest", "exact"),
      Resize(Percentage(F50), Percentage(F1), "triangle", "preserve"),
      Resize(Pixel(U32(40)), Percentage(F150), "lanczos3", "fill") }

\* the sequences over S of length at most n
SeqsUpTo(S, n) == UNION {[1..k -> S] : k \in 0..n}

NoCall == [fn |-> "none"]

NoRet == [fn |-> "none"]

----------------------------------------------------------------------------
(* process_file (src/src/lib.rs)                                           *)

Status(st, err) == [status |-> st, error |-> err]

\* a loop that never rebinds `image`
NextImageStale(current, produced) == current

\* `image = operation.get_process().process(image)?`: the image the next
\* operation receives
NextImage(current, produced) == produced

\* the record of one executed operation
Entry(i, op, input, r) ==
    [index |-> i, op |-> op, input |-> input, outcome |-> r.outcome,
     output |-> r.image, error |-> r.error, near |-> r.near, far |-> r.far,
     request |-> r.request]

\* a loop that swallows the error of an operation
ContinuesPastError(outcome) == outcome # "panic"

\* whether the for loop of process_file goes on after an operation
Continues(outcome) == outcome = "image"

\* ImageReader::open(in_path)?.decode()? succeeds
Decode ==
    /\ result.status = "start"
    /\ \E img \in Images : image' = img
    /\ idx' = 1
    /\ result' = Status("running", NoError)
    /\ UNCHANGED <<operations, log, units, lastError, call, ret, build>>

\* ImageReader::open or decode fails: the error is returned at once
DecodeFail ==
    /\ result.status = "start"
    /\ \E kind \in {"IoError", "ImageError"} :
          result' = Status("error", [kind |-> kind, detail |-> "none"])
    /\ UNCHANGED <<image, operations, idx, log, units, lastError, call, ret,
                   build>>

\* the effect of one iteration of the for loop whose operation returned r
Executed(op, r) ==
    /\ log' = Append(log, Entry(idx, op, image, r))
    /\ IF Continues(r.outcome)
       THEN /\ image' = NextImage(image, r.image)
            /\ idx' = idx + 1
            /\ UNCHANGED result
       ELSE /\ image' = NoImage
            /\ UNCHANGED idx
            /\ result' = IF r.outcome = "error"
                         THEN Status("error", OperationError(r.error))
                         ELSE Status("panic", NoError)

\* one iteration of the for loop, for the operation of the given variant
Step(tag) ==
    /\ result.status = "running"
    /\ idx <= Len(operations)
    /\ operations[idx].tag = tag
    /\ Executed(operations[idx], Process(operations[idx], image))
    /\ UNCHANGED <<operations, units, lastError, call, ret, build>>

ProcessAdjustBrightness == Step("adjust-brightness")

ProcessBlur == Step("blur")

ProcessCrop == Step("crop")

ProcessGrayscale == Step("grayscale")

ProcessResize == Step("resize")

\* Ok(image) after the last operation
Return ==
    /\ result.status = "running"
    /\ idx > Len(operations)
    /\ result' = Status("ok", NoError)
    /\ UNCHANGED <<image, operations, idx, log, units, lastError, call, ret,
                   build>>

Init ==
    /\ operations \in SeqsUpTo(Ops, MaxOps)
    /\ build \in Builds
    /\ image = NoImage
    /\ idx = 0
    /\ result = Status("start", NoError)
    /\ log = <<>>
    /\ units = {}
    /\ lastError = NoError
    /\ call = NoCall
    /\ ret = NoRet

Next ==
    \/ Decode
    \/ DecodeFail
    \/ ProcessAdjustBrightness
    \/ ProcessBlur
    \/ ProcessCrop
    \/ ProcessGrayscale
    \/ ProcessResize
    \/ Return

Spec == Init /\ [][Next]_vars

----------------------------------------------------------------------------
(* Single calls of as_pixel, as_pixel_coordinate and Crop::process         *)

SampleUnits ==
    {Pixel(U32(0)), Pixel(U32(5)), Pixel(U32(10)), Pixel(<<65535, 65526>>),
     Percentage(F1), Percentage(F20), Percentage(F50), Percentage(F100),
     Percentage(F150)}

SampleCoordinates == {Coordinate(x, y) : x \in SampleUnits, y \in SampleUnits}

SampleOrigins ==
    {Minimum(c) : c \in SampleCoordinates}
        \cup {Maximum(c) : c \in SampleCoordinates}
        \cup {CropStart(c) : c \in SampleCoordinates}

SampleImages ==
    {Image(U32(100), U32(100), FALSE), Image(U32(200), U32(100), FALSE),
     Image(U32(3), U32(7), FALSE), Image(U32(0), U32(5), FALSE)}

SampleDimensions ==
    {U32(0), U32(1), U32(3), U32(5), U32(100), U32(200), U32(1000),
     U32(16777215), U32(16777216), U32(16777217), U32(33554435),
     <<65535, 65407>>, <<65535, 65408>>, U32Max}

AsPixelCalls ==
    {[fn |-> "as_pixel", self |-> u, dimension |-> d] :
        u \in {Pixel(U32(0)), Pixel(U32(5)), Pixel(U32Max)}
                \cup {Percentage(f) : f \in Floats},
        d \in SampleDimensions}

OriginCalls ==
    {[fn |-> "as_pixel_coordinate", self |-> o, x |-> xy[1], y |-> xy[2],
      width |-> wh[1], height |-> wh[2]] :
        o \in SampleOrigins,
        xy \in {U32(0), U32(5), <<65535, 65526>>} \X {U32(0), U32(5)},
        wh \in {U32(3), U32(100), U32(200)} \X {U32(3), U32(100), U32(200)}}

CropCalls ==
    {[fn |-> "process", self |-> Crop(c, o), image |-> img] :
        c \in SampleCoordinates, o \in SampleOrigins, img \in SampleImages}

CallAsPixel ==
    /\ call.fn = "as_pixel"
    /\ ret.fn = "none"
    /\ ret' = [fn |-> "as_pixel", value |-> as_pixel(call.self, call.dimension)]
    /\ UNCHANGED <<image, operations, idx, result, log, units, lastError, call,
                   build>>

CallAsPixelCoordinate ==
    /\ call.fn = "as_pixel_coordinate"
    /\ ret.fn = "none"
    /\ ret' = [fn |-> "as_pixel_coordinate",
               value |-> as_pixel_coordinate(call.self, call.x, call.y,
                                             call.width, call.height)]
    /\ UNCHANGED <<image, operations, idx, result, log, units, lastError, call,
                   build>>

CallCropProcess ==
    /\ call.fn = "process"
    /\ ret.fn = "none"
    /\ ret' = [fn |-> "process", value |-> CropProcess(call.self, call.image)]
    /\ UNCHANGED <<image, operations, idx, result, log, units, lastError, call,
                   build>>

InitCall ==
    /\ call \in AsPixelCalls \cup OriginCalls \cup CropCalls
    /\ build \in Builds
    /\ ret = NoRet
    /\ operations = <<>>
    /\ image = NoImage
    /\ idx = 0
    /\ result = Status("start", NoError)
    /\ log = <<>>
    /\ units = {}
    /\ lastError = NoError

NextCall == CallAsPixel \/ CallAsPixelCoordinate \/ CallCropProcess

SpecCall == InitCall /\ [][NextCall]_vars

----------------------------------------------------------------------------
(* Construction of PercentageUnit values                                   *)

ConfigFloats == {F0, F20, F100, F150, FNeg25, FNaN}

\* PercentageUnit::try_from(value), called by a user of the library
TryFrom ==
    \E value \in ConfigFloats :
        /\ IF try_from(value).ok
           THEN /\ units' = units \cup {try_from(value).unit}
                /\ lastError' = NoError
           ELSE /\ lastError' = try_from(value).err
                /\ UNCHANGED units
        /\ UNCHANGED <<image, operations, idx, result, log, call, ret, build>>

\* #[derive(Deserialize)] on PercentageUnit: the struct is built from the
\* `percentage` field of the document
Deserialize ==
    \E value \in ConfigFloats :
        /\ units' = units \cup {[percentage |-> value]}
        /\ lastError' = NoError
        /\ UNCHANGED <<image, operations, idx, result, log, call, ret, build>>

\* Unit::Percentage(unit).as_pixel(dimension) on a unit that exists
Resolve ==
    \E unit \in units, dimension \in {U32(3), U32(100)} :
        /\ call' = [fn |-> "as_pixel", self |-> Percentage(unit.percentage),
                    dimension |-> dimension]
        /\ ret' = [fn |-> "as_pixel",
                   value |-> as_pixel(Percentage(unit.percentage), dimension)]
        /\ UNCHANGED <<image, operations, idx, result, log, units, lastError,
                       build>>

InitConfig ==
    /\ units = {}
    /\ lastError = NoError
    /\ call = NoCall
    /\ ret = NoRet
    /\ build \in Builds
    /\ operations = <<>>
    /\ image = NoImage
    /\ idx = 0
    /\ result = Status("start", NoError)
    /\ log = <<>>

NextConfig == TryFrom \/ Deserialize \/ Resolve

SpecConfig == InitConfig /\ [][NextConfig]_vars

----------------------------------------------------------------------------
(* Claims                                                                  *)

\* the corners (left, top) and (right, bottom) are in order on both axes
Ordered(near, far) == Le(near[1], far[1]) /\ Le(near[2], far[2])

\* C1: whenever Crop::process resolves a far corner that lies below the near
\* corner on either axis it returns an OperationError and crop_imm is not
\* called; crop_imm is only ever called with far >= near on both axes.
C1_InvalidCropFails ==
    ret.fn = "process" =>
        /\ (ret.value.far # PanicCoordinate
                /\ ~Ordered(ret.value.near, ret.value.far))
              => (ret.value.outcome = "error" /\ ret.value.request = NoRequest
                    /\ ret.value.image = NoImage)
        /\ ret.value.request # NoRequest
              => (ret.value.far # PanicCoordinate
                    /\ Ordered(ret.value.near, ret.value.far))

\* a crop whose right edge is left of its left edge, top and bottom in order
C1_Witness ==
    /\ ret.fn = "process"
    /\ ret.value.far # PanicCoordinate
    /\ Lt(ret.value.far[1], ret.value.near[1])
    /\ Le(ret.value.near[2], ret.value.far[2])
    /\ ret.value.outcome = "error"

\* C2: process_file applies the operations in list order, each one to the
\* image the previous one returned; the first operation that returns an
\* error is the last one applied and its error is the result of the run.
C2_InOrderShortCircuit ==
    /\ Len(log) <= Len(operations)
    /\ \A i \in 1..Len(log) :
          /\ log[i].index = i
          /\ log[i].op = operations[i]
          /\ i > 1 => log[i].input = log[i - 1].output
          /\ i < Len(log) => log[i].outcome = "image"
    /\ (Len(log) > 0 /\ log[Len(log)].outcome = "error")
          => result = Status("error", OperationError(log[Len(log)].error))
    /\ (result.status = "error" /\ result.error.kind = "OperationError")
          => (Len(log) > 0 /\ log[Len(log)].outcome = "error")
    /\ result.status = "ok"
          => (Len(log) = Len(operations) /\ idx = Len(operations) + 1
                /\ (Len(log) > 0 => image = log[Len(log)].output))

\* [Grayscale, invalid Crop, Resize]: the run ended with the Crop's error
\* and the Resize was never applied
C2_Witness ==
    /\ Len(operations) = 3
    /\ operations[1].tag = "grayscale"
    /\ operations[2].tag = "crop"
    /\ operations[3].tag = "resize"
    /\ Len(log) = 2
    /\ log[1].output.gray
    /\ log[2].input.gray
    /\ result = Status("error", OperationError("RightLessThanLeft"))

\* C3: the near and the far corner resolve the same axis against the same
\* image dimension; so a crop whose far corner is Minimum(c) with c equal to
\* `from` resolves both corners to the same point.
C3_SameDimensionBothCorners ==
    (ret.fn = "process" /\ call.self.to.tag = "minimum"
        /\ call.self.to.coordinate = call.self.from)
      => ret.value.far = ret.value.near

\* C4: Crop::process ends with an image or an OperationError and never with
\* the failed assertion of the PixelUnit subtraction.
C4_NoAbort ==
    ret.fn = "process" => ret.value.outcome \in {"image", "error"}

\* C5: every PercentageUnit in existence holds a value within [0, 1], and
\* as_pixel is only ever applied to such a unit.
C5_PercentageInRange ==
    /\ \A unit \in units : InRange(unit.percentage)
    /\ call.fn = "as_pixel" => InRange(call.self.percentage)

\* C6: whenever the resolved corners are in order on both axes (equality
\* included) Crop::process asks crop_imm for exactly (near.x, near.y,
\* far.x - near.x, far.y - near.y) and returns the cropped image.
C6_ExactRectangle ==
    (ret.fn = "process" /\ ret.value.far # PanicCoordinate
        /\ Ordered(ret.value.near, ret.value.far))
      => /\ ret.value.outcome = "image"
         /\ ret.value.request =
               <<ret.value.near[1], ret.value.near[2],
                 Minus(ret.value.far[1], ret.value.near[1]),
                 Minus(ret.value.far[2], ret.value.near[2])>>

\* C7: for Maximum and every inset that is at most the dimension (an inset
\* equal to the dimension included) the far corner is
\* (width - inset.x, height - inset.y).
C7_MaximumInset ==
    (ret.fn = "as_pixel_coordinate" /\ call.self.tag = "maximum"
        /\ Le(as_pixel(call.self.coordinate.x, call.width), call.width)
        /\ Le(as_pixel(call.self.coordinate.y, call.height), call.height))
      => ret.value =
            <<Minus(call.width, as_pixel(call.self.coordinate.x, call.width)),
              Minus(call.height, as_pixel(call.self.coordinate.y, call.height))>>

\* far = near + delta as integers: far is not below near and far - near is
\* the delta
IsSum(far, near, delta) == Le(near, far) /\ Minus(far, near) = delta

\* C8: for CropStart, whenever both sums are within the u32 range, the far
\* corner is the near corner plus the coordinate resolved against (width,
\* height), the exact integer sum.
C8_CropStartSum ==
    (ret.fn = "as_pixel_coordinate" /\ call.self.tag = "crop-start"
        /\ ~AddOverflows(call.x, as_pixel(call.self.coordinate.x, call.width))
        /\ ~AddOverflows(call.y, as_pixel(call.self.coordinate.y, call.height)))
      => /\ ret.value # PanicCoordinate
         /\ IsSum(ret.value[1], call.x,
                  as_pixel(call.self.coordinate.x, call.width))
         /\ IsSum(ret.value[2], call.y,
                  as_pixel(call.self.coordinate.y, call.height))

\* near (5, 5) and CropStart((10, 10)) give (15, 15)
C8_Witness ==
    /\ ret.fn = "as_pixel_coordinate"
    /\ call.self = CropStart(Coordinate(Pixel(U32(10)), Pixel(U32(10))))
    /\ call.x = U32(5) /\ call.y = U32(5)
    /\ ret.value = <<U32(15), U32(15)>>

\* the wide number w + c, for c < 2^24
WideAdd(w, c) ==
    <<w[1] + (w[2] + c) \div 16777216, (w[2] + c) % 16777216>>

\* the wide number w modulo 2^k
WideLow(w, k) ==
    IF k >= 48 THEN w
    ELSE IF k >= 24 THEN <<w[1] % Pow2(k - 24), w[2]>>
    ELSE <<0, w[2] % Pow2(k)>>

\* floor(w / 2^u) as a u32, for w / 2^u < 2^32
WideFloor(w, u) == <<WideShr(w, u + 16), WideShr(WideLow(w, u + 16), u)>>

\* floor(d * p) of the real numbers d and p, for the u32 d and the f32 p in
\* [0, 1]: with p = m * 2^-(16 + u) and d = hi * 2^16 + lo it is
\* floor((m * hi + floor(m * lo / 2^16)) / 2^u)
FloorExact(d, p) ==
    IF IsZero(p) THEN U32(0)
    ELSE WideFloor(WideAdd(WideMul(F32Man(p), d[1]),
                           WideShr(WideMul(F32Man(p), d[2]), 16)),
                   -F32Exp(p) - 16)

\* the number of trailing zero bits of n, 0 < n < 2^24
TrailingZeros(n) ==
    CHOOSE k \in 0..24 : n % Pow2(k) = 0 /\ n % Pow2(k + 1) # 0

\* n without its trailing zero bits, 0 < n < 2^24
OddPart(n) == n \div Pow2(TrailingZeros(n))

\* the number of trailing zero bits of the u32 d > 0
TrailingZerosU32(d) ==
    IF d[2] # 0 THEN TrailingZeros(d[2]) ELSE 16 + TrailingZeros(d[1])

\* the u32 d > 0 shifted right by k bits
OddShift(d, k) ==
    IF k <= 16 THEN ShrU32(d, k) ELSE d[1] \div Pow2(k - 16)

\* the product d * p has at most 24 significant bits, i.e. it is an f32
ExactInF32(d, p) ==
    \/ d = U32(0)
    \/ IsZero(p)
    \/ /\ BitLenU32(d) - TrailingZerosU32(d) <= 24
       /\ WideMul(OddShift(d, TrailingZerosU32(d)), OddPart(F32Man(p)))[1] = 0

\* C9 as stated: Pixel(n).as_pixel(d) = n, and for p in [0, 1]
\* Percentage(p).as_pixel(d) = floor(d * p).
C9_FloorOfProduct ==
    ret.fn = "as_pixel" =>
        /\ call.self.tag = "pixel" => ret.value = call.self.pixels
        /\ (call.self.tag = "percentage" /\ InRange(call.self.percentage))
              => ret.value = FloorExact(call.dimension, call.self.percentage)

\* C9 amended: Pixel(n).as_pixel(d) = n; for p in [0, 1]
\* Percentage(p).as_pixel(d) is the f32 product truncated toward zero: it is
\* floor(d * p) whenever d * p is exactly an f32, and for d <= 2^24 it is
\* floor(d * p) or floor(d * p) + 1; d = 3, p = 0.99 gives 2 and d = 100,
\* p = 0.8 gives 80.
C9_TruncatedF32Product ==
    ret.fn = "as_pixel" =>
        /\ call.self.tag = "pixel" => ret.value = call.self.pixels
        /\ (call.self.tag = "percentage" /\ InRange(call.self.percentage))
              => /\ ExactInF32(call.dimension, call.self.percentage)
                      => ret.value = FloorExact(call.dimension, call.self.percentage)
                 /\ Le(call.dimension, U32(16777216))
                      => ret.value \in
                            {FloorExact(call.dimension, call.self.percentage),
                             WrappingAdd(FloorExact(call.dimension,
                                                    call.self.percentage),
                                         U32(1))}
                 /\ (call.dimension = U32(3) /\ call.self.percentage = F99)
                      => ret.value = U32(2)
                 /\ (call.dimension = U32(100) /\ call.self.percentage = F80)
                      => ret.value = U32(80)

\* 50% of 5 pixels is 2: the exact product 2.5 is truncated
C9_Witness ==
    /\ ret.fn = "as_pixel"
    /\ call.self = Percentage(F50)
    /\ call.dimension = U32(5)
    /\ ret.value = U32(2)

\* the image operation i of the run received
Received(i) == IF i = 1 THEN log[i].input ELSE log[i - 1].output

\* C10: every Crop and Resize of a run resolves its units against the
\* dimensions of the image the preceding operation returned: Resize its
\* width against that width and its height against that height, Crop each
\* unit against a dimension of that image.
C10_CurrentDimensions ==
    \A i \in 1..Len(log) :
        /\ log[i].op.tag = "resize"
              => log[i].request =
                    <<as_pixel(log[i].op.width, Received(i).width),
                      as_pixel(log[i].op.height, Received(i).height)>>
        /\ log[i].op.tag = "crop"
              => /\ log[i].near[1] \in
                       {as_pixel(log[i].op.from.x, Received(i).width),
                        as_pixel(log[i].op.from.x, Received(i).height)}
                 /\ log[i].near[2] \in
                       {as_pixel(log[i].op.from.y, Received(i).width),
                        as_pixel(log[i].op.from.y, Received(i).height)}
                 /\ log[i].far =
                       as_pixel_coordinate(log[i].op.to, log[i].near[1],
                           log[i].near[2], Received(i).width, Received(i).height)

\* a Resize by 50% behind an operation that changed the width: the target
\* width is half the new width, not half the decoded width
C10_Witness ==
    /\ Len(log) >= 2
    /\ log[2].op.tag = "resize"
    /\ log[2].op.width = Percentage(F50)
    /\ log[1].output.width # log[1].input.width
    /\ log[2].request[1] = as_pixel(Percentage(F50), log[1].output.width)
    /\ log[2].request[1] # as_pixel(Percentage(F50), log[1].input.width)

====
